---- MODULE Spec2Model ----
(***************************************************************************)
(* A model of the error-annotation engine of reynir_correct/checker.py:    *)
(* ReynirCorrect.annotate and the ErrorFinder tree visitor.                *)
(*                                                                         *)
(* A sentence is a record [tokens, deep_tree].  Tokens are indexed from 0  *)
(* in the program; tokens[i + 1] is the token with original index i.       *)
(* A parse tree is a sequence of node records, node 1 being the root, and  *)
(* the empty sequence standing for deep_tree = None.  A text is a sequence *)
(* of one-character strings, so that correct_spaces() is a real function   *)
(* on texts.  A nonterminal name is a sequence of lexical pieces whose     *)
(* concatenation is the name ("Villa", "Heldur", "_", "et").  Icelandic    *)
(* letters are written in ASCII: th for thorn, d for eth, and the vowels   *)
(* without their accents.                                                  *)
(***************************************************************************)
EXTENDS Integers, Sequences, FiniteSets, TLC

VARIABLES
    sent,               \* thread -> the sentence object passed to annotate
    pc,                 \* thread -> position inside annotate
    ix,                 \* thread -> loop index of the token loop
    words_in_bin,       \* thread -> local counter
    words_not_in_bin,   \* thread -> local counter
    ann,                \* list owner -> annotation list under construction
    todo,               \* thread -> nodes the navigator has still to visit
    gathered,           \* thread -> the list as it was handed to ann.sort
    results,            \* thread -> the lists returned so far, one per call
    exc,                \* thread -> the exception that ended the call, or ""
    searched,           \* thread -> what find_verb_subject last returned
    verbs_errors,       \* VerbSubjects.VERBS_ERRORS, shared by all threads
    _parser,            \* ReynirCorrect._parser: 0 for None, or an instance
    _reducer,           \* ReynirCorrect._reducer: 0 for None, or the parser
                        \* instance from whose grammar it was built
    _lock,              \* ReynirCorrect._lock: the thread holding it, or ""
    created,            \* parser instances constructed so far
    modified,           \* what _parser.is_grammar_modified()[0] reports
    at,                 \* thread -> position in the parser and reducer properties
    given               \* thread -> the parser and the reducer it was handed

\* The state of ReynirCorrect.annotate.
avars == <<sent, pc, ix, words_in_bin, words_not_in_bin, ann, todo,
           gathered, results, exc, searched, verbs_errors>>

\* The state of the parser and reducer singletons.
pvars == <<_parser, _reducer, _lock, created, modified, at, given>>

vars == <<avars, pvars>>

\* ------------------------------------------------------------- bounds

\* Longest sentence, in tokens.
MaxTokens == 4

\* Calls of annotate a thread makes on its sentence.
MaxRuns == 2

\* The largest number of tokens of a sentence of words without a tree.
MaxWords == 5

\* Parser instances constructed in a run: the grammar is reported modified
\* only while fewer have been constructed.
MaxParsers == 3

\* ---------------------------------------------------------- constants

Threads == {"t1", "t2"}

NoSentence == [tokens |-> <<>>, deep_tree |-> <<>>]

Cases == {"nf", "thf", "thgf", "ef"}

\* Optional values: None, or Some(v).
None == [some |-> FALSE, val |-> <<>>]

Some(v) == [some |-> TRUE, val |-> v]

\* -------------------------------------------------------------- texts

RECURSIVE JoinSpace(_)
\* " ".join(parts)
JoinSpace(parts) ==
    IF parts = <<>> THEN <<>>
    ELSE IF Len(parts) = 1 THEN Head(parts)
    ELSE Head(parts) \o <<" ">> \o JoinSpace(Tail(parts))

RECURSIVE SplitWords(_, _)
\* str.split(): the maximal runs of non-space characters; cur is the run
\* being read.
SplitWords(s, cur) ==
    IF s = <<>> THEN (IF cur = <<>> THEN <<>> ELSE <<cur>>)
    ELSE IF Head(s) = " "
         THEN (IF cur = <<>> THEN <<>> ELSE <<cur>>) \o SplitWords(Tail(s), <<>>)
         ELSE SplitWords(Tail(s), Append(cur, Head(s)))

RECURSIVE JoinCorrect(_)
\* Join the words with one space, but none before a comma.
JoinCorrect(ws) ==
    IF ws = <<>> THEN <<>>
    ELSE IF Len(ws) = 1 THEN Head(ws)
    ELSE Head(ws)
         \o (IF Head(ws[2]) = "," THEN <<>> ELSE <<" ">>)
         \o JoinCorrect(Tail(ws))

\* reynir.correct_spaces: split on whitespace and join again with the
\* spacing of running text.
correct_spaces(s) == JoinCorrect(SplitWords(s, <<>>))

\* ------------------------------------------------------------- tokens

WORD == "WORD"

PUNCTUATION == "PUNCTUATION"

\* A token: val is whether the lexicon has at least one analysis of it;
\* error_code = "" stands for a token with no (or an empty) error_code.
Tok(kind, val, code, span) ==
    [kind |-> kind, txt |-> IF kind = WORD THEN <<"a">> ELSE <<",">>,
     val |-> val, error_code |-> code, error_span |-> span]

\* -------------------------------------------------------------- trees

\* A nonterminal node of the parse tree.  tag is its tag in the simple
\* tree ("" when the simple tree has no node for it).
NT(parent, name, tag, interior, optional, error) ==
    [kind |-> "nt", parent |-> parent, name |-> name, tag |-> tag,
     is_interior |-> interior, is_optional |-> optional, error |-> error,
     category |-> "", is_subj |-> FALSE, marks |-> {}, case |-> "",
     lemma |-> "", tok |-> 0, text |-> <<>>, forms |-> <<>>]

\* A terminal node: its terminal's category, whether the terminal is a
\* _subj terminal, its marks among op, sagnb and nh, its last variant, the
\* lemma of the matched word and the original index of the matched token.
TM(parent, category, subj, marks, case, lemma, tok) ==
    [kind |-> "t", parent |-> parent, name |-> <<>>, tag |-> "",
     is_interior |-> FALSE, is_optional |-> FALSE, error |-> FALSE,
     category |-> category, is_subj |-> subj, marks |-> marks, case |-> case,
     lemma |-> lemma, tok |-> tok, text |-> <<>>, forms |-> <<>>]

\* A subject noun phrase of the simple tree: its text as it stands and its
\* text recast into each case (SimpleTree.nominative_np and so on).
NPSubj(parent, text, forms) ==
    [NT(parent, <<"Nl">>, "NP-SUBJ", FALSE, FALSE, FALSE)
        EXCEPT !.text = text, !.forms = forms]

Nodes(tree) == 1..Len(tree)

RECURSIVE SeqOfSet(_)
\* The elements of a set of numbers, ascending.
SeqOfSet(S) ==
    IF S = {} THEN <<>>
    ELSE LET m == CHOOSE x \in S : \A y \in S : x <= y
         IN <<m>> \o SeqOfSet(S \ {m})

\* node.enum_child_nodes(): the children of n, left to right.
Children(tree, n) == SeqOfSet({m \in Nodes(tree) : tree[m].parent = n})

RECURSIVE PreOrder(_, _)
RECURSIVE PreOrderAll(_, _)
\* ParseForestNavigator.go: the nodes below and including n in the order
\* they are visited.
PreOrder(tree, n) == <<n>> \o PreOrderAll(tree, Children(tree, n))

PreOrderAll(tree, ns) ==
    IF ns = <<>> THEN <<>>
    ELSE PreOrder(tree, Head(ns)) \o PreOrderAll(tree, Tail(ns))

RECURSIVE Descends(_, _, _)
\* Whether node m is n or lies below it.
Descends(tree, m, n) ==
    IF m = n THEN TRUE
    ELSE IF m = 0 THEN FALSE
    ELSE Descends(tree, tree[m].parent, n)

\* The original indices of the tokens under node n.
TokensUnder(tree, n) ==
    {tree[m].tok : m \in {k \in Nodes(tree) :
                             tree[k].kind = "t" /\ Descends(tree, k, n)}}

Min(S) == CHOOSE x \in S : \A y \in S : x <= y

Max(S) == CHOOSE x \in S : \A y \in S : x >= y

\* ErrorFinder._node_span: the indices of the first and last token spanned.
node_span(tree, n) == <<Min(TokensUnder(tree, n)), Max(TokensUnder(tree, n))>>

\* ErrorFinder._node_text: the text within the span of the node.
node_text(s, n) ==
    LET sp == node_span(s.deep_tree, n)
    IN correct_spaces(JoinSpace(
           [i \in 1..(sp[2] - sp[1] + 1) |-> s.tokens[sp[1] + i].txt]))

RECURSIVE enclosing_tag(_, _, _)
\* SimpleTree.enclosing_tag: the closest enclosing node with the tag, or 0
\* for None.
enclosing_tag(tree, n, tag) ==
    LET p == tree[n].parent
    IN IF p = 0 THEN 0
       ELSE IF tree[p].tag = tag THEN p
       ELSE enclosing_tag(tree, p, tag)

RECURSIVE SimpleChildren(_, _)
RECURSIVE SimpleChildrenAll(_, _)
\* The children of p in the simple tree: the nearest nodes below it that the
\* simple tree keeps.
SimpleChildren(tree, p) == SimpleChildrenAll(tree, Children(tree, p))

SimpleChildrenAll(tree, ns) ==
    IF ns = <<>> THEN <<>>
    ELSE (IF tree[Head(ns)].tag # "" \/ tree[Head(ns)].kind = "t"
          THEN <<Head(ns)>>
          ELSE SimpleChildren(tree, Head(ns)))
         \o SimpleChildrenAll(tree, Tail(ns))

\* p.NP_SUBJ: the first child of p tagged NP-SUBJ; 0 where the attribute
\* lookup raises AttributeError.
NP_SUBJ(tree, p) ==
    LET cs == SimpleChildren(tree, p)
        hits == {i \in 1..Len(cs) : tree[cs[i]].tag = "NP-SUBJ"}
    IN IF hits = {} THEN 0 ELSE cs[Min(hits)]

\* -------------------------------------------------------- annotations

RECURSIVE FlatStr(_)
\* The string whose lexical pieces are given.
FlatStr(pieces) ==
    IF pieces = <<>> THEN "" ELSE Head(pieces) \o FlatStr(Tail(pieces))

\* code.endswith("/w"), on the pieces of the code.
EndsWithW(pieces) == pieces # <<>> /\ pieces[Len(pieces)] = "/w"

\* Annotation.__init__; code is given by its lexical pieces.
Annotation(start, end, code, text, suggest, is_warning) ==
    [start |-> start, end |-> end,
     code |-> FlatStr(IF is_warning /\ ~EndsWithW(code)
                      THEN Append(code, "/w") ELSE code),
     text |-> text, suggest |-> suggest]

\* An explanation: the template that was formatted and what was put in it.
Text(tmpl, words, np) == [tmpl |-> tmpl, words |-> words, np |-> np]

\* What find_verb_subject returned for the terminal node tnode (subj = 0
\* for None); NotSearched when it was not called or did not return.
NotSearched == [tnode |-> 0, subj |-> 0]

\* What a visitor hook did: the annotations it appended, or the exception
\* that it raised.
Appended(anns) == [raises |-> "", anns |-> anns, found |-> NotSearched]

Raised(e) == [raises |-> e, anns |-> <<>>, found |-> NotSearched]

\* ------------------------------------------------------ shared tables

\* ErrorFinder._CASE_NAMES
CASE_NAMES == [c \in Cases |->
    CASE c = "nf" -> "nefni"
      [] c = "thf" -> "thol"
      [] c = "thgf" -> "thagu"
      [] c = "ef" -> "eignar"]

\* VerbSubjects.VERBS_ERRORS as loaded from the settings: for a verb lemma,
\* the subject cases that are errors, each with the correct case.  A lemma
\* outside the domain has no entry.
VerbsErrorsTable ==
    [v \in {"langa", "hlakka"} |->
        IF v = "langa"
        THEN [c \in {"nf", "thgf"} |-> "thf"]
        ELSE [c \in {"thf", "thgf"} |-> "nf"]]

\* VerbSubjects.VERBS_ERRORS.get(verb, set())
ErrorsOf(table, verb) ==
    IF verb \in DOMAIN table THEN table[verb] ELSE <<>>

\* ErrorFinder._CAST_FUNCTIONS[case].fget(subj): the subject recast.
CastSubject(tree, subj, case) == tree[subj].forms[case]

\* SimpleTree.tidy_text of the subject.
tidy_text(tree, subj) == correct_spaces(tree[subj].text)

\* ---------------------------------------------------- subject recovery

\* OuterVP with a single enclosing_tag("VP").
NearestVPOnly(tree, tnode) ==
    [raises |-> "", node |-> enclosing_tag(tree, tnode, "VP")]

\* Line 347: tnode.enclosing_tag("VP").enclosing_tag("VP").  The second
\* call is made on what the first returns; on None it raises.
OuterVP(tree, tnode) ==
    LET v == enclosing_tag(tree, tnode, "VP")
    IN IF v = 0 THEN [raises |-> "AttributeError", node |-> 0]
       ELSE [raises |-> "", node |-> enclosing_tag(tree, v, "VP")]

\* ErrorFinder.find_verb_subject: the subject node, 0 for None.
find_verb_subject(tree, tnode) ==
    LET p == OuterVP(tree, tnode)
        first == IF p.raises = "" /\ p.node # 0
                 THEN NP_SUBJ(tree, p.node) ELSE 0
        ip == enclosing_tag(tree, tnode, "IP")
    IN IF p.raises # "" THEN [raises |-> p.raises, subj |-> 0]
       ELSE IF first # 0 THEN [raises |-> "", subj |-> first]
       ELSE IF ip # 0 THEN [raises |-> "", subj |-> NP_SUBJ(tree, ip)]
       ELSE [raises |-> "", subj |-> 0]

\* ------------------------------------------------------- visit_token

\* SameAsOriginal with the suggestion compared as it is, not normalized.
SameAsOriginalUnnormalized(tree, subj, suggestion) ==
    tidy_text(tree, subj) = suggestion

\* The comparison that decides whether the subject is annotated.
SameAsOriginal(tree, subj, suggestion) ==
    tidy_text(tree, subj) = correct_spaces(suggestion)

\* visit_token.annotate_wrong_subject_case, for the terminal node n.
annotate_wrong_subject_case(s, n, subj_case_abbr, correct_case_abbr) ==
    LET tree == s.deep_tree
        verb == tree[n].lemma
        wrong_case == CASE_NAMES[subj_case_abbr]
        correct_case == CASE_NAMES[correct_case_abbr]
        found == find_verb_subject(tree, n)
        subj == found.subj
        code == <<"P_WRONG_CASE_", subj_case_abbr, "_", correct_case_abbr>>
        suggestion == CastSubject(tree, subj, correct_case_abbr)
        index == tree[n].tok
        did == IF subj # 0
               THEN IF ~SameAsOriginal(tree, subj, suggestion)
                    THEN Appended(<<Annotation(
                             node_span(tree, subj)[1], node_span(tree, subj)[2], code,
                             Text("A liklega ad vera",
                                  <<verb, correct_case, wrong_case>>,
                                  correct_spaces(suggestion)),
                             Some(suggestion), FALSE)>>)
                    ELSE Appended(<<>>)
               ELSE Appended(<<Annotation(
                        index, index, code,
                        Text("Frumlag sagnarinnar",
                             <<verb, correct_case, wrong_case>>, <<>>),
                        None, FALSE)>>)
    IN IF found.raises # "" THEN Raised(found.raises)
       ELSE [did EXCEPT !.found = [tnode |-> n, subj |-> subj]]

\* IsOpSagnbNh with every _subj terminal let through.
AnySubjTerminal(node) == TRUE

\* Line 440: terminal.is_op or terminal.is_sagnb or terminal.is_nh
IsOpSagnbNh(node) == node.marks \cap {"op", "sagnb", "nh"} # {}

\* ErrorFinder.visit_token, for the terminal node n of the sentence s.
visit_token(s, n, table) ==
    LET node == s.deep_tree[n]
        errors == ErrorsOf(table, node.lemma)
    IN IF node.category # "so" THEN Appended(<<>>)
       ELSE IF ~node.is_subj
       THEN IF "nf" \in DOMAIN errors
            THEN annotate_wrong_subject_case(s, n, "nf", errors["nf"])
            ELSE Appended(<<>>)
       ELSE IF ~IsOpSagnbNh(node) THEN Appended(<<>>)
       ELSE IF node.case \notin Cases THEN Raised("AssertionError")
       ELSE IF node.case \in DOMAIN errors
       THEN annotate_wrong_subject_case(s, n, node.case, errors[node.case])
       ELSE Appended(<<>>)

\* ------------------------------------------- rule explanation dispatch

\* What a text function returned: a plain text, a pair (text, suggestion),
\* a 4-tuple (text, start, end, suggestion), or the exception it raised.
PlainText(text) ==
    [shape |-> "str", raises |-> "", text |-> text, start |-> 0, end |-> 0,
     suggest |-> None]

Pair(text, suggestion) ==
    [shape |-> "pair", raises |-> "", text |-> text, start |-> 0, end |-> 0,
     suggest |-> suggestion]

Quad(text, start, end, suggestion) ==
    [shape |-> "quad", raises |-> "", text |-> text, start |-> start,
     end |-> end, suggest |-> suggestion]

Fails(e) ==
    [shape |-> "", raises |-> e, text |-> Text("", <<>>, <<>>), start |-> 0,
     end |-> 0, suggest |-> None]

\* The text functions of ErrorFinder that the model holds.
TextFunctions ==
    {"VillaHeldur", "VillaVistAd", "VillaFjoldiHluti", "VillaSem", "VillaAd",
     "VillaKomma", "VillaNe", "VillaThoAd", "VillaITolu", "SvigaInnihaldNl"}

\* VillaITolu with the span of the rule node.
VillaIToluWholeNode(s, txt, variants, node) ==
    LET children == Children(s.deep_tree, node)
        number == IF "et" \in {variants[i] : i \in DOMAIN variants}
                  THEN "eintolu" ELSE "fleirtolu"
    IN IF Len(children) # 2 THEN Fails("AssertionError")
       ELSE Quad(Text("Sogn a sennilega ad vera i", <<number>>,
                      node_text(s, children[1])),
                 node_span(s.deep_tree, node)[1],
                 node_span(s.deep_tree, node)[2],
                 None)

\* ErrorFinder.VillaITolu
VillaITolu(s, txt, variants, node) ==
    LET children == Children(s.deep_tree, node)
        number == IF "et" \in {variants[i] : i \in DOMAIN variants}
                  THEN "eintolu" ELSE "fleirtolu"
    IN IF Len(children) # 2 THEN Fails("AssertionError")
       ELSE Quad(Text("Sogn a sennilega ad vera i", <<number>>,
                      node_text(s, children[1])),
                 node_span(s.deep_tree, children[2])[1],
                 node_span(s.deep_tree, children[2])[2],
                 None)

\* getattr(self, name)(span_text, variants, node), for a name that has a
\* text function.
CallTextFunction(s, name, txt, variants, node) ==
    CASE name = "VillaHeldur" ->
            Pair(Text("er sennilega ofaukid", <<>>, txt), Some(<<>>))
      [] name = "VillaVistAd" ->
            Pair(Text("a sennilega ad vera 'fyrst ad'", <<>>, txt),
                 Some(<<"f", "y", "r", "s", "t", " ", "a", "d">>))
      [] name = "VillaFjoldiHluti" ->
            PlainText(Text("Sogn a sennilega ad vera i eintolu", <<>>, txt))
      [] name \in {"VillaSem", "VillaAd"} ->
            Pair(Text("er ad ollum likindum ofaukid", <<>>, txt), Some(<<>>))
      [] name = "VillaKomma" ->
            Pair(Text("Komma er liklega othorf", <<>>, <<>>), Some(<<>>))
      [] name = "VillaNe" ->
            Pair(Text("'ne' gaeti att ad vera 'eda'", <<>>, <<>>),
                 Some(<<"e", "d", "a">>))
      [] name = "VillaThoAd" ->
            Pair(Text("a sennilega ad vera", <<>>, txt),
                 Some(txt \o <<" ", "a", "d">>))
      [] name = "VillaITolu" -> VillaITolu(s, txt, variants, node)
      [] name = "SvigaInnihaldNl" ->
            IF FlatStr(variants) \in Cases
            THEN PlainText(Text("gaeti att ad vera i falli",
                                <<CASE_NAMES[FlatStr(variants)]>>, txt))
            ELSE Fails("KeyError")

\* The pieces of a name before its first "_" (all of it when it has none).
RECURSIVE BaseName(_)
BaseName(name) ==
    IF name = <<>> \/ Head(name) = "_" THEN <<>>
    ELSE <<Head(name)>> \o BaseName(Tail(name))

\* The pieces of a name after its first "_".
VariantsOf(name) ==
    IF Len(BaseName(name)) = Len(name) THEN <<>>
    ELSE SubSeq(name, Len(BaseName(name)) + 2, Len(name))

\* NonterminalCode with the base name kept whole.
NonterminalCodeWhole(base) == <<"P_NT_">> \o base

\* Line 483: the code of an error-tagged nonterminal, from its base name.
NonterminalCode(base) ==
    <<"P_NT_">> \o (IF base # <<>> /\ Head(base) = "Villa" THEN Tail(base) ELSE base)

\* NotInteresting without the test of is_optional.
InteriorOnly(node) == node.is_interior

\* Line 461: whether visit_nonterminal passes the node over.
NotInteresting(node) == node.is_interior \/ node.is_optional

\* SuggestionOf with an empty suggestion taken for none.
SuggestionUnlessEmpty(got) ==
    IF got.suggest = Some(<<>>) THEN None ELSE got.suggest

\* Lines 467, 491, 493: the suggestion stays None unless the text function
\* returned a tuple, whose last item it then is.
SuggestionOf(got) == IF got.shape = "str" THEN None ELSE got.suggest

\* ErrorFinder.visit_nonterminal, for the nonterminal node n.
visit_nonterminal(s, n) ==
    LET node == s.deep_tree[n]
        span == node_span(s.deep_tree, n)
        span_text == node_text(s, n)
        base == BaseName(node.name)
        variants == VariantsOf(node.name)
        code == NonterminalCode(base)
        has_func == FlatStr(base) \in TextFunctions
        got == IF has_func
               THEN CallTextFunction(s, FlatStr(base), span_text, variants, n)
               ELSE PlainText(Text("er liklega rangt (regla)",
                                   <<FlatStr(node.name)>>, span_text))
        start == IF got.shape = "quad" THEN got.start ELSE span[1]
        end == IF got.shape = "quad" THEN got.end ELSE span[2]
    IN IF NotInteresting(node) THEN Appended(<<>>)
       ELSE IF ~node.error THEN Appended(<<>>)
       ELSE IF got.raises # "" THEN Raised(got.raises)
       ELSE Appended(<<Annotation(start, end, code, got.text, SuggestionOf(got),
                                  FlatStr(code) \in {"P_NT_Ad", "P_NT_Komma"})>>)

\* The hook the navigator calls on node n.
Visit(s, n, table) ==
    IF s.deep_tree[n].kind = "t" THEN visit_token(s, n, table)
    ELSE visit_nonterminal(s, n)

\* ------------------------------------------------------------ annotate

\* ICELANDIC_RATIO = 0.6, as the fraction RatioNum / RatioDen.
RatioNum == 3

RatioDen == 5

\* TokenAnnotation with end = ix + t.error_span.
TokenAnnotationSpanEnd(s, i) ==
    LET t == s.tokens[i + 1]
    IN IF t.error_code # ""
       THEN <<Annotation(i, i + t.error_span, <<t.error_code>>,
                         Text("error_description", <<t.error_code>>, <<>>),
                         None, FALSE)>>
       ELSE <<>>

\* Lines 665-673: the annotations the token loop appends for token ix.
TokenAnnotation(s, i) ==
    LET t == s.tokens[i + 1]
    IN IF t.error_code # ""
       THEN <<Annotation(i, i + t.error_span - 1, <<t.error_code>>,
                         Text("error_description", <<t.error_code>>, <<>>),
                         None, FALSE)>>
       ELSE <<>>

\* NotIcelandic with a ratio of exactly ICELANDIC_RATIO taken for too low.
NotIcelandicAtMostRatio(in_bin, not_in_bin) ==
    LET num_words == in_bin + not_in_bin
    IN num_words > 2 /\ in_bin * RatioDen <= RatioNum * num_words

\* NotIcelandic with the test num_words > 3.
NotIcelandicOverThree(in_bin, not_in_bin) ==
    LET num_words == in_bin + not_in_bin
    IN num_words > 3 /\ in_bin * RatioDen < RatioNum * num_words

\* Line 676: num_words > 2 and words_in_bin / num_words < ICELANDIC_RATIO.
\* The quotient of two small counts is below the double 0.6 exactly when
\* it is below 3/5.
NotIcelandic(in_bin, not_in_bin) ==
    LET num_words == in_bin + not_in_bin
    IN num_words > 2 /\ in_bin * RatioDen < RatioNum * num_words

\* SentenceAnnotation with the token count for the last index.
SentenceAnnotationPastEnd(s, code, text) ==
    Annotation(0, Len(s.tokens), <<code>>, Text(text, <<>>, <<>>), None, FALSE)

\* The annotation that spans the whole sentence (lines 682-687, 695-700).
SentenceAnnotation(s, code, text) ==
    Annotation(0, Len(s.tokens) - 1, <<code>>, Text(text, <<>>, <<>>), None, FALSE)

\* KeyLess with the key (a.start, a.end).
KeyLessEndAscending(a, b) ==
    a.start < b.start \/ (a.start = b.start /\ a.end < b.end)

\* The sort key of line 708, compared: whether a must come before b.
KeyLess(a, b) ==
    a.start < b.start \/ (a.start = b.start /\ -a.end < -b.end)

RECURSIVE InsertSorted(_, _)
\* a put into the sorted list l behind every element not after it.
InsertSorted(l, a) ==
    IF l = <<>> THEN <<a>>
    ELSE IF KeyLess(a, Head(l)) THEN <<a>> \o l
    ELSE <<Head(l)>> \o InsertSorted(Tail(l), a)

RECURSIVE SortAnn(_)
\* ann.sort(key=lambda a: (a.start, -a.end)): a stable sort.
SortAnn(l) ==
    IF l = <<>> THEN <<>>
    ELSE InsertSorted(SortAnn(SubSeq(l, 1, Len(l) - 1)), l[Len(l)])

\* ----------------------------------------------------------- sentences

\* The token lists of n tokens: r words the lexicon knows, then u words
\* it does not know, then punctuation; err gives each token the span of its
\* error (0 for a token without an error).  A token's error spans tokens of
\* the sentence, from the token on.
TokenList(n, r, u, err) ==
    [i \in 1..n |->
        Tok(IF i <= r + u THEN WORD ELSE PUNCTUATION,
            i <= r,
            IF err[i] = 0 THEN "" ELSE IF err[i] = 1 THEN "S004" ELSE "P_afad",
            IF err[i] = 0 THEN 1 ELSE err[i])]

\* At most two tokens of a sentence carry an error.
ErrorPatterns(n) ==
    {err \in [1..n -> 0..n] :
        /\ \A i \in 1..n : i - 1 + err[i] <= n
        /\ Cardinality({i \in 1..n : err[i] # 0}) <= 2}

PlainWords(n) == [i \in 1..n |-> Tok(WORD, TRUE, "", 1)]

Noun(parent, tok) == TM(parent, "no", FALSE, {}, "", "", tok)

\* A tree over n tokens: a rule tagged as an error over the first token,
\* the other tokens matched by terminals below the root.
FlatTree(n) ==
    <<NT(0, <<"S0">>, "S", FALSE, FALSE, FALSE),
      NT(1, <<"Villa", "Heldur">>, "", FALSE, FALSE, TRUE),
      Noun(2, 0)>>
    \o [i \in 1..(n - 1) |-> Noun(1, i)]

\* Sentences of n tokens that exercise the token loop and the language
\* gate, parsed and unparsed.
GateSentencesOf(n) ==
    {[tokens |-> TokenList(n, ru[1], ru[2], err), deep_tree |-> tree] :
        ru \in {x \in (0..n) \X (0..n) : x[1] + x[2] <= n},
        err \in ErrorPatterns(n),
        tree \in {<<>>, FlatTree(n)}}

GateSentences == UNION {GateSentencesOf(n) : n \in 1..MaxTokens}

\* The enclosing phrases of a verb, outermost first: each a verb phrase or
\* an inflected phrase, with or without a subject noun phrase as a child.
ChainItems == [tag : {"VP", "IP"}, subj : BOOLEAN]

Chains == UNION {[1..k -> ChainItems] : k \in 0..(MaxTokens - 1)}

RECURSIVE ChainNodes(_, _, _, _, _, _)
\* The nodes of a chain below node parent, numbered from id on, the next
\* free token being tok; the verb terminal comes last.
ChainNodes(chain, parent, id, tok, verb, sp) ==
    IF chain = <<>> THEN <<[verb EXCEPT !.parent = parent, !.tok = tok]>>
    ELSE <<NT(parent, <<Head(chain).tag>>, Head(chain).tag, FALSE, FALSE, FALSE)>>
         \o (IF Head(chain).subj
             THEN <<NPSubj(id, sp.text, sp.forms), Noun(id + 1, tok)>>
                  \o ChainNodes(Tail(chain), id, id + 3, tok + 1, verb, sp)
             ELSE ChainNodes(Tail(chain), id, id + 1, tok, verb, sp))

NumSubjects(chain) == Cardinality({i \in DOMAIN chain : chain[i].subj})

ChainSentence(chain, verb, sp) ==
    [tokens |-> PlainWords(NumSubjects(chain) + 1),
     deep_tree |-> <<NT(0, <<"S0">>, "S", FALSE, FALSE, FALSE)>>
                   \o ChainNodes(chain, 1, 2, 0, verb, sp)]

\* Texts of a subject: as it stands, and recast.
SubjectProfiles ==
    {[text |-> <<"a">>, forms |-> [c \in Cases |-> IF c = "nf" THEN <<"a">> ELSE <<"b">>]],
     [text |-> <<"a", " ", ",">>, forms |-> [c \in Cases |-> <<"a", " ", ",">>]],
     [text |-> <<"a", " ", ",">>, forms |-> [c \in Cases |-> <<"b", " ", ",">>]]}

\* Verb terminals on which a case-mismatch finding is triggered.
FindingVerbs ==
    {TM(0, "so", FALSE, {}, "", "langa", 0),
     TM(0, "so", TRUE, {"op"}, "thgf", "langa", 0),
     TM(0, "so", TRUE, {"nh"}, "thf", "hlakka", 0)}

AllTerminals ==
    {TM(0, c, sj, m, cs, l, 0) :
        c \in {"so", "no"}, sj \in BOOLEAN, m \in {{}, {"op"}, {"sagnb"}, {"nh"}},
        cs \in Cases, l \in {"langa", "hlakka", "fara"}}

\* Every chain of phrases above a verb with a finding.
ChainSentences ==
    {ChainSentence(chain, verb, sp) :
        chain \in Chains, verb \in FindingVerbs, sp \in SubjectProfiles}

\* Every terminal below two verb phrases of an inflected phrase with a
\* subject.
TerminalSentences ==
    {ChainSentence(<<[tag |-> "IP", subj |-> TRUE], [tag |-> "VP", subj |-> FALSE],
                     [tag |-> "VP", subj |-> FALSE]>>, verb, sp) :
        verb \in AllTerminals,
        sp \in {x \in SubjectProfiles : x.text = <<"a">>}}

\* Names of nonterminals, by their lexical pieces.
OuterRules ==
    {<<"Villa", "ITolu", "_", "et">>, <<"Villa", "Heldur">>, <<"Villa", "Sem">>,
     <<"Villa", "Othekkt">>}

InnerRules ==
    {<<"Villa", "Ad">>, <<"Villa", "Komma">>, <<"Villa", "Ne">>,
     <<"Villa", "FjoldiHluti">>,
     <<"Sviga", "InnihaldNl", "_", "thf">>}

Flags == [interior : BOOLEAN, optional : BOOLEAN, error : BOOLEAN]

\* A rule over k + 1 tokens whose first child is a rule over the first
\* token and whose other children are terminals.
RuleTree(outer, fo, inner, fi, k) ==
    <<NT(0, <<"S0">>, "S", FALSE, FALSE, FALSE),
      NT(1, outer, "", fo.interior, fo.optional, fo.error),
      NT(2, inner, "", fi.interior, fi.optional, fi.error),
      Noun(3, 0)>>
    \o [i \in 1..k |-> Noun(2, i)]

RuleSentences ==
    {[tokens |-> PlainWords(k + 1), deep_tree |-> RuleTree(outer, fo, inner, fi, k)] :
        outer \in OuterRules, fo \in Flags, inner \in InnerRules, fi \in Flags,
        k \in 1..(MaxTokens - 2)}

\* Unparsed sentences of n tokens, the first with a spelling error: every
\* number of known words, unknown words and punctuation.
WordSentencesOf(n) ==
    {[tokens |-> TokenList(n, ru[1], ru[2], [i \in 1..n |-> IF i = 1 THEN 1 ELSE 0]),
      deep_tree |-> <<>>] :
        ru \in {x \in (0..n) \X (0..n) : x[1] + x[2] <= n}}

WordSentences == UNION {WordSentencesOf(n) : n \in 1..MaxWords}

Sentences ==
    GateSentences \cup ChainSentences \cup TerminalSentences \cup RuleSentences
        \cup WordSentences

\* ------------------------------------------------------------- actions

\* AnnList with one list for all calls.
SharedList(t) == "t1"

\* Line 650: the list a call of annotate builds is its own; the ErrorFinder
\* of the call appends to the same list (line 125).
AnnList(t) == t

\* FreshAnn with the list kept from call to call.
StaleAnn(t) == ann[t]

\* Line 650: ann = []
FreshAnn(t) == <<>>

\* Lines 650-652: a thread calls annotate on its sentence.
Begin(t) ==
    /\ pc[t] = "idle"
    /\ sent[t] # NoSentence
    /\ Len(results[t]) < MaxRuns
    /\ pc' = [pc EXCEPT ![t] = "tokens"]
    /\ ann' = [ann EXCEPT ![AnnList(t)] = FreshAnn(t)]
    /\ ix' = [ix EXCEPT ![t] = 0]
    /\ words_in_bin' = [words_in_bin EXCEPT ![t] = 0]
    /\ words_not_in_bin' = [words_not_in_bin EXCEPT ![t] = 0]
    /\ UNCHANGED <<sent, todo, gathered, results, exc, searched, verbs_errors>>
    /\ UNCHANGED pvars

\* Lines 654-673: one round of the token loop.
TokenStep(t) ==
    /\ pc[t] = "tokens"
    /\ ix[t] < Len(sent[t].tokens)
    /\ LET tk == sent[t].tokens[ix[t] + 1]
       IN /\ words_in_bin' =
                [words_in_bin EXCEPT ![t] = @ + IF tk.kind = WORD /\ tk.val THEN 1 ELSE 0]
          /\ words_not_in_bin' =
                [words_not_in_bin EXCEPT ![t] = @ + IF tk.kind = WORD /\ ~tk.val THEN 1 ELSE 0]
    /\ ann' = [ann EXCEPT ![AnnList(t)] = @ \o TokenAnnotation(sent[t], ix[t])]
    /\ ix' = [ix EXCEPT ![t] = @ + 1]
    /\ UNCHANGED <<sent, pc, todo, gathered, results, exc, searched, verbs_errors>>
    /\ UNCHANGED pvars

\* Lines 675-688: the sentence is taken not to be Icelandic.
LanguageGate(t) ==
    /\ pc[t] = "tokens"
    /\ ix[t] = Len(sent[t].tokens)
    /\ NotIcelandic(words_in_bin[t], words_not_in_bin[t])
    /\ ann' = [ann EXCEPT ![AnnList(t)] =
                  <<SentenceAnnotation(sent[t], "E004",
                        "Malsgreinin er sennilega ekki a islensku")>>]
    /\ pc' = [pc EXCEPT ![t] = "sort"]
    /\ UNCHANGED <<sent, ix, words_in_bin, words_not_in_bin, todo, gathered,
                   results, exc, searched, verbs_errors>>
    /\ UNCHANGED pvars

\* Lines 689-701: the sentence has no parse tree.
Unparsable(t) ==
    /\ pc[t] = "tokens"
    /\ ix[t] = Len(sent[t].tokens)
    /\ ~NotIcelandic(words_in_bin[t], words_not_in_bin[t])
    /\ sent[t].deep_tree = <<>>
    /\ ann' = [ann EXCEPT ![AnnList(t)] =
                  Append(@, SentenceAnnotation(sent[t], "E001",
                                "Malsgreinin fellur ekki ad reglum"))]
    /\ pc' = [pc EXCEPT ![t] = "sort"]
    /\ UNCHANGED <<sent, ix, words_in_bin, words_not_in_bin, todo, gathered,
                   results, exc, searched, verbs_errors>>
    /\ UNCHANGED pvars

\* Lines 702-705: ErrorFinder(ann, sent).go(sent.deep_tree) sets out.
StartVisit(t) ==
    /\ pc[t] = "tokens"
    /\ ix[t] = Len(sent[t].tokens)
    /\ ~NotIcelandic(words_in_bin[t], words_not_in_bin[t])
    /\ sent[t].deep_tree # <<>>
    /\ todo' = [todo EXCEPT ![t] = PreOrder(sent[t].deep_tree, 1)]
    /\ pc' = [pc EXCEPT ![t] = "visit"]
    /\ UNCHANGED <<sent, ix, words_in_bin, words_not_in_bin, ann, gathered,
                   results, exc, searched, verbs_errors>>
    /\ UNCHANGED pvars

\* Line 705: the navigator visits the next node.  An exception raised in a
\* hook leaves annotate, and the caller gets no list.
VisitNode(t) ==
    /\ pc[t] = "visit"
    /\ LET did == Visit(sent[t], Head(todo[t]), verbs_errors)
       IN /\ IF did.raises # ""
             THEN /\ pc' = [pc EXCEPT ![t] = "raised"]
                  /\ exc' = [exc EXCEPT ![t] = did.raises]
                  /\ UNCHANGED <<ann, todo>>
             ELSE /\ ann' = [ann EXCEPT ![AnnList(t)] = @ \o did.anns]
                  /\ todo' = [todo EXCEPT ![t] = Tail(@)]
                  /\ pc' = [pc EXCEPT ![t] =
                               IF Tail(todo[t]) = <<>> THEN "sort" ELSE "visit"]
                  /\ UNCHANGED exc
          /\ searched' = [searched EXCEPT ![t] =
                          IF did.found = NotSearched THEN @ ELSE did.found]
    /\ UNCHANGED <<sent, ix, words_in_bin, words_not_in_bin, gathered, results,
                   verbs_errors>>
    /\ UNCHANGED pvars

\* Lines 706-709: the list is sorted in place and returned.
SortAndReturn(t) ==
    /\ pc[t] = "sort"
    /\ gathered' = [gathered EXCEPT ![t] = ann[AnnList(t)]]
    /\ ann' = [ann EXCEPT ![AnnList(t)] = SortAnn(@)]
    /\ results' = [results EXCEPT ![t] = Append(@, SortAnn(ann[AnnList(t)]))]
    /\ pc' = [pc EXCEPT ![t] = "idle"]
    /\ UNCHANGED <<sent, ix, words_in_bin, words_not_in_bin, todo, exc, searched, verbs_errors>>
    /\ UNCHANGED pvars

Next ==
    \E t \in Threads :
        \/ Begin(t)
        \/ TokenStep(t)
        \/ LanguageGate(t)
        \/ Unparsable(t)
        \/ StartVisit(t)
        \/ VisitNode(t)
        \/ SortAndReturn(t)

\* The state before any call, the threads holding the sentences ss.
InitWith(ss) ==
    /\ sent = ss
    /\ pc = [t \in Threads |-> "idle"]
    /\ ix = [t \in Threads |-> 0]
    /\ words_in_bin = [t \in Threads |-> 0]
    /\ words_not_in_bin = [t \in Threads |-> 0]
    /\ ann = [t \in Threads |-> <<>>]
    /\ todo = [t \in Threads |-> <<>>]
    /\ gathered = [t \in Threads |-> <<>>]
    /\ results = [t \in Threads |-> <<>>]
    /\ exc = [t \in Threads |-> ""]
    /\ searched = [t \in Threads |-> NotSearched]
    /\ verbs_errors = VerbsErrorsTable
    /\ _parser = 0
    /\ _reducer = 0
    /\ _lock = ""
    /\ created = 0
    /\ modified = FALSE
    /\ at = [t \in Threads |-> "out"]
    /\ given = [t \in Threads |-> [parser |-> 0, reducer |-> 0]]

\* One thread annotates one sentence.
Init == \E s \in Sentences : InitWith([t \in Threads |-> IF t = "t1" THEN s ELSE NoSentence])

Spec == Init /\ [][Next]_vars

\* ----------------------------------------------- annotate, as one call

RECURSIVE TokenLoop(_, _)
\* Lines 654-673 for the first n tokens: the annotations appended.
TokenLoop(s, n) ==
    IF n = 0 THEN <<>> ELSE TokenLoop(s, n - 1) \o TokenAnnotation(s, n - 1)

RECURSIVE Traverse(_, _, _)
\* ErrorFinder.go over the nodes given: the annotations appended, or the
\* exception of the first hook that raised.
Traverse(s, nodes, table) ==
    IF nodes = <<>> THEN Appended(<<>>)
    ELSE LET did == Visit(s, Head(nodes), table)
             rest == Traverse(s, Tail(nodes), table)
         IN IF did.raises # "" THEN Raised(did.raises)
            ELSE IF rest.raises # "" THEN rest
            ELSE Appended(did.anns \o rest.anns)

\* ReynirCorrect.annotate run by one thread alone: the list it returns, or
\* the exception it raises.
annotate(s, table) ==
    LET n == Len(s.tokens)
        in_bin == Cardinality({i \in 1..n : s.tokens[i].kind = WORD /\ s.tokens[i].val})
        not_in_bin == Cardinality({i \in 1..n : s.tokens[i].kind = WORD /\ ~s.tokens[i].val})
        walked == Traverse(s, PreOrder(s.deep_tree, 1), table)
    IN IF NotIcelandic(in_bin, not_in_bin)
       THEN Appended(<<SentenceAnnotation(s, "E004",
                          "Malsgreinin er sennilega ekki a islensku")>>)
       ELSE IF s.deep_tree = <<>>
       THEN Appended(SortAnn(Append(TokenLoop(s, n),
                SentenceAnnotation(s, "E001", "Malsgreinin fellur ekki ad reglum"))))
       ELSE IF walked.raises # "" THEN walked
       ELSE Appended(SortAnn(TokenLoop(s, n) \o walked.anns))

\* ------------------------------------------------- concurrent threads

\* Sentences that between them take every path through annotate.
ConcurrentSentences ==
    {[tokens |-> TokenList(3, 1, 2, <<2, 0, 1>>), deep_tree |-> <<>>],
     [tokens |-> TokenList(2, 2, 0, <<0, 1>>), deep_tree |-> <<>>],
     [tokens |-> TokenList(2, 2, 0, <<1, 0>>), deep_tree |-> FlatTree(2)],
     ChainSentence(<<[tag |-> "VP", subj |-> TRUE], [tag |-> "VP", subj |-> FALSE]>>,
                   TM(0, "so", FALSE, {}, "", "langa", 0),
                   [text |-> <<"a">>, forms |-> [c \in Cases |-> <<"b">>]]),
     ChainSentence(<<[tag |-> "IP", subj |-> FALSE]>>,
                   TM(0, "so", FALSE, {}, "", "langa", 0),
                   [text |-> <<"a">>, forms |-> [c \in Cases |-> <<"b">>]])}

\* Two threads annotate a sentence each, at the same time.
InitConcurrent ==
    \E s1 \in ConcurrentSentences, s2 \in ConcurrentSentences :
        InitWith([t \in Threads |-> IF t = "t1" THEN s1 ELSE s2])

SpecConcurrent == InitConcurrent /\ [][Next]_vars

\* ------------------------------------------------- parser and reducer

\* Line 628: a thread reads the parser property and takes the lock.
EnterParser(t) ==
    /\ at[t] = "out"
    /\ _lock = ""
    /\ _lock' = t
    /\ at' = [at EXCEPT ![t] = "test"]
    /\ given' = [given EXCEPT ![t] = [parser |-> 0, reducer |-> 0]]
    /\ UNCHANGED <<_parser, _reducer, created, modified, avars>>

\* Lines 629-632: is there a parser, and is its grammar unmodified?
TestParser(t) ==
    /\ at[t] = "test"
    /\ at' = [at EXCEPT ![t] =
                 IF _parser = 0 \/ modified THEN "parser" ELSE "return"]
    /\ UNCHANGED <<_parser, _reducer, _lock, created, modified, given, avars>>

\* Line 635: ReynirCorrect._parser = edp = ErrorDetectingParser()
ConstructParser(t) ==
    /\ at[t] = "parser"
    /\ created' = created + 1
    /\ _parser' = created + 1
    /\ modified' = FALSE
    /\ at' = [at EXCEPT ![t] = "reducer"]
    /\ UNCHANGED <<_reducer, _lock, given, avars>>

\* Line 636: ReynirCorrect._reducer = Reducer(edp.grammar)
ConstructReducer(t) ==
    /\ at[t] = "reducer"
    /\ _reducer' = _parser
    /\ at' = [at EXCEPT ![t] = "return"]
    /\ UNCHANGED <<_parser, _lock, created, modified, given, avars>>

\* Line 637: return ReynirCorrect._parser, leaving the with block.
ReturnParser(t) ==
    /\ at[t] = "return"
    /\ given' = [given EXCEPT ![t].parser = _parser]
    /\ _lock' = ""
    /\ at' = [at EXCEPT ![t] = "has_parser"]
    /\ UNCHANGED <<_parser, _reducer, created, modified, avars>>

\* Lines 643-644: the thread reads the reducer property, which takes no
\* lock.
ReadReducer(t) ==
    /\ at[t] = "has_parser"
    /\ IF _reducer = 0
       THEN /\ at' = [at EXCEPT ![t] = "AssertionError"]
            /\ UNCHANGED given
       ELSE /\ at' = [at EXCEPT ![t] = "has_both"]
            /\ given' = [given EXCEPT ![t].reducer = _reducer]
    /\ UNCHANGED <<_parser, _reducer, _lock, created, modified, avars>>

\* The thread goes on to its next parse.
NextParse(t) ==
    /\ at[t] = "has_both"
    /\ at' = [at EXCEPT ![t] = "out"]
    /\ UNCHANGED <<_parser, _reducer, _lock, created, modified, given, avars>>

\* The grammar file changes: is_grammar_modified() of the current parser
\* reports so from now on.
GrammarModified ==
    /\ _parser # 0
    /\ ~modified
    /\ created < MaxParsers
    /\ modified' = TRUE
    /\ UNCHANGED <<_parser, _reducer, _lock, created, at, given, avars>>

NextParser ==
    \/ GrammarModified
    \/ \E t \in Threads :
          \/ EnterParser(t)
          \/ TestParser(t)
          \/ ConstructParser(t)
          \/ ConstructReducer(t)
          \/ ReturnParser(t)
          \/ ReadReducer(t)
          \/ NextParse(t)

\* Two threads, each reading parser and then reducer, time after time.
InitParser == InitWith([t \in Threads |-> NoSentence])

SpecParser == InitParser /\ [][NextParser]_vars

\* -------------------------------------------------------------- claims

\* The lists thread t has been returned.
Returned(t) == {results[t][i] : i \in DOMAIN results[t]}

Elements(l) == {l[i] : i \in DOMAIN l}

Count(l, a) == Cardinality({i \in DOMAIN l : l[i] = a})

\* Whether the lists hold the same annotations, each as often.
IsPermutation(l, m) ==
    /\ Len(l) = Len(m)
    /\ \A a \in Elements(l) \cup Elements(m) : Count(l, a) = Count(m, a)

\* The word tokens of a sentence, and those among them the lexicon knows.
WordTokens(s) == {i \in DOMAIN s.tokens : s.tokens[i].kind = WORD}

KnownWords(s) == {i \in WordTokens(s) : s.tokens[i].val}

\* More than 2 words, and fewer than 0.6 of them known.
GateFires(s) ==
    /\ Cardinality(WordTokens(s)) > 2
    /\ 10 * Cardinality(KnownWords(s)) < 6 * Cardinality(WordTokens(s))

\* The tokens that carry an error code, by original index.
ErrorTokens(s) == {i \in 0..(Len(s.tokens) - 1) : s.tokens[i + 1].error_code # ""}

WrongCaseCode(wrong, correct) == "P_WRONG_CASE_" \o wrong \o "_" \o correct

WrongCaseCodes == {WrongCaseCode(w, c) : w \in Cases, c \in Cases}

\* The case-mismatch finding the terminal node n gives rise to: the wrong
\* and the correct case, or <<>> for none.
Finding(s, n) ==
    LET node == s.deep_tree[n]
        known == node.lemma \in DOMAIN VerbsErrorsTable
    IN IF node.kind # "t" \/ node.category # "so" \/ ~known THEN <<>>
       ELSE IF ~node.is_subj
       THEN IF "nf" \in DOMAIN VerbsErrorsTable[node.lemma]
            THEN <<"nf", VerbsErrorsTable[node.lemma]["nf"]>> ELSE <<>>
       ELSE IF node.marks # {} /\ node.case \in DOMAIN VerbsErrorsTable[node.lemma]
       THEN <<node.case, VerbsErrorsTable[node.lemma][node.case]>>
       ELSE <<>>

\* The terminals of a tree with a case-mismatch finding.
FindingNodes(s) == {n \in Nodes(s.deep_tree) : Finding(s, n) # <<>>}

\* C1: every annotation of every returned list has
\* 0 <= start <= end < len(sent.tokens).
C1_SpansWithinSentence ==
    \A t \in Threads : \A r \in Returned(t) : \A a \in Elements(r) :
        0 <= a.start /\ a.start <= a.end /\ a.end < Len(sent[t].tokens)

\* C1 witness: a returned list holds a token-level annotation over more than
\* one token, and one from the tree.
C1_Witness ==
    \E r \in Returned("t1") :
        /\ \E a \in Elements(r) : a.code = "P_afad" /\ a.end > a.start
        /\ \E a \in Elements(r) : a.code = "P_NT_Heldur"

\* C2: a returned list is ordered by start ascending, then end descending,
\* and is a permutation of the annotations gathered before the sort.
C2_SortedPermutation ==
    \A t \in Threads :
        /\ \A r \in Returned(t) : \A i, j \in DOMAIN r :
              /\ r[i].start < r[j].start => i < j
              /\ (r[i].start = r[j].start /\ r[i].end > r[j].end) => i < j
        /\ results[t] # <<>> /\ pc[t] = "idle" =>
              IsPermutation(results[t][Len(results[t])], gathered[t])

\* C2 witness: the sort moved a longer annotation before a shorter one that
\* starts at the same token.
C2_Witness ==
    /\ pc["t1"] = "idle" /\ results["t1"] # <<>>
    /\ LET r == results["t1"][Len(results["t1"])]
           g == gathered["t1"]
       IN /\ r # g
          /\ \E i, j \in DOMAIN g :
                i < j /\ g[i].start = g[j].start /\ g[i].end < g[j].end

\* C3: when the language gate fires, the returned list is exactly one E004
\* annotation over the whole sentence.
C3_GateGivesOnlyE004 ==
    \A t \in Threads : \A r \in Returned(t) :
        GateFires(sent[t]) =>
            /\ Len(r) = 1
            /\ r[1].code = "E004"
            /\ r[1].start = 0
            /\ r[1].end = Len(sent[t].tokens) - 1

\* C3 witness: the gate fired on a sentence with no parse tree whose tokens
\* carry errors.
C3_Witness ==
    /\ results["t1"] # <<>>
    /\ GateFires(sent["t1"])
    /\ sent["t1"].deep_tree = <<>>
    /\ Cardinality(ErrorTokens(sent["t1"])) = 2

\* C4: when the gate does not fire and there is no parse tree, the returned
\* list is the token-level annotations, one per token with an error code,
\* and exactly one E001 annotation over the whole sentence.
C4_UnparsedKeepsTokenLevel ==
    \A t \in Threads : \A r \in Returned(t) :
        LET s == sent[t]
        IN (~GateFires(s) /\ s.deep_tree = <<>>) =>
            /\ Len(r) = Cardinality(ErrorTokens(s)) + 1
            /\ \A i \in ErrorTokens(s) : \E k \in DOMAIN r :
                  /\ r[k].start = i
                  /\ r[k].end = i + s.tokens[i + 1].error_span - 1
                  /\ r[k].code = s.tokens[i + 1].error_code
            /\ Cardinality({k \in DOMAIN r : r[k].code = "E001"}) = 1
            /\ \A k \in DOMAIN r : r[k].code = "E001" =>
                  r[k].start = 0 /\ r[k].end = Len(s.tokens) - 1

\* C4 witness: an unparsed sentence with two token errors was annotated.
C4_Witness ==
    /\ results["t1"] # <<>>
    /\ ~GateFires(sent["t1"])
    /\ sent["t1"].deep_tree = <<>>
    /\ Cardinality(ErrorTokens(sent["t1"])) = 2
    /\ \E i \in ErrorTokens(sent["t1"]) : sent["t1"].tokens[i + 1].error_span > 1

\* The annotations of a list that report a wrong subject case.
WrongCaseHits(r) == {k \in DOMAIN r : r[k].code \in WrongCaseCodes}

\* C5: when subject recovery finds a subject, an annotation is made if and
\* only if the subject recast into the correct case, normalized, differs
\* from the subject's normalized text; it then spans the subject, has the
\* code P_WRONG_CASE_<wrong>_<correct> and suggests the recast text; when
\* the texts are the same there is no annotation for the verb.
C5_SubjectAnnotatedIffRecastDiffers ==
    \A t \in Threads : \A r \in Returned(t) :
        searched[t].subj # 0 =>
            LET tree == sent[t].deep_tree
                subj == searched[t].subj
                cases == Finding(sent[t], searched[t].tnode)
                recast == tree[subj].forms[cases[2]]
                differs == correct_spaces(recast) # correct_spaces(tree[subj].text)
            IN /\ differs =>
                    /\ Cardinality(WrongCaseHits(r)) = 1
                    /\ \A k \in WrongCaseHits(r) :
                          /\ <<r[k].start, r[k].end>> = node_span(tree, subj)
                          /\ r[k].code = WrongCaseCode(cases[1], cases[2])
                          /\ r[k].suggest = Some(recast)
               /\ ~differs => WrongCaseHits(r) = {}

\* C5 witness: a subject was found whose recast text differs from its
\* normalized text as written but not once normalized, and the call
\* returned.
C5_Witness ==
    /\ results["t1"] # <<>>
    /\ searched["t1"].subj # 0
    /\ LET tree == sent["t1"].deep_tree
           subj == searched["t1"].subj
           recast == tree[subj].forms[Finding(sent["t1"], searched["t1"].tnode)[2]]
       IN /\ recast # correct_spaces(tree[subj].text)
          /\ correct_spaces(recast) = correct_spaces(tree[subj].text)

\* C6: two calls of annotate on the same sentence return the same list.
C6_SameListEveryCall ==
    \A t \in Threads : \A i, j \in DOMAIN results[t] : results[t][i] = results[t][j]

\* C6 witness: a thread has called annotate twice on a parsed sentence and
\* was returned a list of two or more annotations.
C6_Witness ==
    /\ Len(results["t1"]) = 2
    /\ Len(results["t1"][2]) >= 2
    /\ sent["t1"].deep_tree # <<>>

\* C7: subject recovery never aborts the traversal: where no subject is
\* found, find_verb_subject returns None without raising and the verb token
\* alone is annotated, with the P_WRONG_CASE code and no suggestion.
C7_SubjectRecoveryNeverAborts ==
    \A t \in Threads :
        /\ exc[t] # "AttributeError"
        /\ (pc[t] = "visit" /\ Head(todo[t]) \in FindingNodes(sent[t])) =>
              Visit(sent[t], Head(todo[t]), verbs_errors).raises = ""
        /\ \A r \in Returned(t) :
              (searched[t].tnode # 0 /\ searched[t].subj = 0) =>
                  LET index == sent[t].deep_tree[searched[t].tnode].tok
                      cases == Finding(sent[t], searched[t].tnode)
                  IN \E a \in Elements(r) :
                        /\ a.start = index /\ a.end = index
                        /\ a.code = WrongCaseCode(cases[1], cases[2])
                        /\ a.suggest = None

\* The first NP-SUBJ child of phrase p, 0 when p is 0 or has none.
SubjectIn(tree, p) == IF p = 0 THEN 0 ELSE NP_SUBJ(tree, p)

NearestVP(tree, n) == enclosing_tag(tree, n, "VP")

NextVP(tree, n) ==
    IF NearestVP(tree, n) = 0 THEN 0 ELSE enclosing_tag(tree, NearestVP(tree, n), "VP")

NearestIP(tree, n) == enclosing_tag(tree, n, "IP")

C9_Reentrant ==
    /\ verbs_errors = VerbsErrorsTable
    /\ \A t \in Threads :
          LET alone == annotate(sent[t], VerbsErrorsTable)
          IN /\ \A r \in Returned(t) : alone.raises = "" /\ alone.anns = r
             /\ pc[t] = "raised" => alone.raises = exc[t]

\* C9 witness: both threads are inside annotate, on different sentences,
\* each with annotations in its list.
C9_Witness ==
    /\ pc["t1"] = "sort" /\ pc["t2"] = "visit"
    /\ sent["t1"] # sent["t2"]
    /\ ann["t1"] # <<>> /\ ann["t2"] # <<>>

\* The codes of the annotations made for error-tagged nonterminals.
RuleCodes ==
    {"P_NT_ITolu", "P_NT_Heldur", "P_NT_Sem", "P_NT_Othekkt", "P_NT_Ad/w",
     "P_NT_Komma/w", "P_NT_Ne", "P_NT_FjoldiHluti", "P_NT_SvigaInnihaldNl"}

RuleCount(l) == Cardinality({k \in DOMAIN l : l[k].code \in RuleCodes})

\* The nonterminals tagged "error" that are neither interior nor optional.
ErrorNodes(s) ==
    {n \in Nodes(s.deep_tree) :
        /\ s.deep_tree[n].kind = "nt"
        /\ s.deep_tree[n].error
        /\ ~s.deep_tree[n].is_interior
        /\ ~s.deep_tree[n].is_optional}

\* The nodes whose hook has run in the call under way.
Visited(t) == Nodes(sent[t].deep_tree) \ Elements(todo[t])

\* C10: during a traversal the list holds one P_NT_ annotation for each
\* visited nonterminal that is tagged "error" and neither interior nor
\* optional, and none for any other node; a returned list holds as many
\* P_NT_ annotations as the tree has such nodes.
C10_OnePerErrorNode ==
    \A t \in Threads :
        (~GateFires(sent[t]) /\ sent[t].deep_tree # <<>>) =>
            /\ pc[t] \in {"visit", "raised"} =>
                  RuleCount(ann[t]) = Cardinality(ErrorNodes(sent[t]) \cap Visited(t))
            /\ \A r \in Returned(t) :
                  RuleCount(r) = Cardinality(ErrorNodes(sent[t]))

\* C10 witness: a list was returned for a tree with one node that is
\* annotated and an error-tagged optional node that is passed over.
C10_Witness ==
    /\ results["t1"] # <<>>
    /\ Cardinality(ErrorNodes(sent["t1"])) = 1
    /\ \E n \in Nodes(sent["t1"].deep_tree) :
          LET node == sent["t1"].deep_tree[n]
          IN node.error /\ node.is_optional /\ ~node.is_interior

\* The annotations a step appended to the list of thread t.
NewAnnotations(t) == SubSeq(ann'[t], Len(ann[t]) + 1, Len(ann'[t]))

\* The navigator of thread t has just gone past the node at the head of
\* its list.
Passed(t) == pc[t] = "visit" /\ todo'[t] = Tail(todo[t]) /\ pc'[t] # "raised"

\* Condition (a): a verb terminal with no _subj variant whose lemma has
\* nominative among its erroneous subject cases.
C11_NormalTerminalOfImpersonalVerb(node) ==
    /\ node.category = "so"
    /\ ~node.is_subj
    /\ node.lemma \in DOMAIN verbs_errors
    /\ "nf" \in DOMAIN verbs_errors[node.lemma]

\* Condition (b): a verb terminal with a _subj variant, marked op, sagnb
\* or nh, whose case variant is among the erroneous subject cases of its
\* lemma.
C11_SubjTerminalInWrongCase(node) ==
    /\ node.category = "so"
    /\ node.is_subj
    /\ node.marks \cap {"op", "sagnb", "nh"} # {}
    /\ node.lemma \in DOMAIN verbs_errors
    /\ node.case \in DOMAIN verbs_errors[node.lemma]

\* C11: a terminal node gives rise to an annotation only if it is a verb
\* terminal that (a) has no _subj variant while the table lists nominative
\* as an error for its lemma, the code then naming nf as the wrong case and
\* the table's case as the correct one, or (b) has a _subj variant and one
\* of op, sagnb, nh while the table lists its case variant as an error for
\* its lemma, the code naming that case and the table's; every other
\* terminal appends nothing.
C11_FindingOnlyUnderConditions ==
    [][\A t \in Threads :
         (Passed(t) /\ sent[t].deep_tree[Head(todo[t])].kind = "t"
                    /\ NewAnnotations(t) # <<>>)
         => LET node == sent[t].deep_tree[Head(todo[t])]
                new == NewAnnotations(t)
            IN /\ Len(new) = 1
               /\ \/ /\ C11_NormalTerminalOfImpersonalVerb(node)
                     /\ new[1].code =
                            WrongCaseCode("nf", verbs_errors[node.lemma]["nf"])
                  \/ /\ C11_SubjTerminalInWrongCase(node)
                     /\ new[1].code =
                            WrongCaseCode(node.case, verbs_errors[node.lemma][node.case])]_vars

\* A call has returned a case-mismatch annotation for a tree that holds a
\* _subj terminal marked op, sagnb or nh, and no terminal of condition (a).
C11_Witness ==
    \E t \in Threads :
        /\ sent[t] # NoSentence
        /\ sent[t].deep_tree # <<>>
        /\ \E n \in Nodes(sent[t].deep_tree) :
              /\ sent[t].deep_tree[n].kind = "t"
              /\ C11_SubjTerminalInWrongCase(sent[t].deep_tree[n])
              /\ \E r \in Returned(t) : \E i \in DOMAIN r :
                    r[i].code = WrongCaseCode(sent[t].deep_tree[n].case,
                        verbs_errors[sent[t].deep_tree[n].lemma][sent[t].deep_tree[n].case])
        /\ \A n \in Nodes(sent[t].deep_tree) :
              sent[t].deep_tree[n].kind = "t"
              => ~C11_NormalTerminalOfImpersonalVerb(sent[t].deep_tree[n])

RECURSIVE C12_BeforeUnderscore(_)
\* The part of a rule name before its first underscore.
C12_BeforeUnderscore(name) ==
    IF name = <<>> THEN ""
    ELSE IF Head(name) = "_" THEN ""
    ELSE Head(name) \o C12_BeforeUnderscore(Tail(name))

\* "P_NT_" and the base name of the rule without a leading "Villa".
C12_PlainCode(name) ==
    "P_NT_" \o (IF name # <<>> /\ Head(name) = "Villa"
                THEN C12_BeforeUnderscore(Tail(name))
                ELSE C12_BeforeUnderscore(name))

\* C12: the annotation of an error-tagged nonterminal has the code P_NT_
\* followed by the rule's base name without a leading "Villa"; the code
\* carries the suffix /w exactly when it is P_NT_Ad or P_NT_Komma; the
\* annotations of terminals are P_WRONG_CASE ones and carry no suffix.
C12_CodeAndWarning ==
    [][\A t \in Threads :
         (Passed(t) /\ NewAnnotations(t) # <<>>)
         => LET node == sent[t].deep_tree[Head(todo[t])]
                new == NewAnnotations(t)
            IN /\ Len(new) = 1
               /\ IF node.kind = "nt"
                  THEN new[1].code =
                         C12_PlainCode(node.name)
                         \o (IF C12_PlainCode(node.name) \in {"P_NT_Ad", "P_NT_Komma"}
                             THEN "/w" ELSE "")
                  ELSE new[1].code \in WrongCaseCodes]_vars

\* A call has returned a warning for a redundant word together with an
\* error for another rule.
C12_Witness ==
    \E t \in Threads : \E r \in Returned(t) :
        /\ \E i \in DOMAIN r : r[i].code = "P_NT_Ad/w"
        /\ \E i \in DOMAIN r : r[i].code = "P_NT_Heldur"

\* The text functions that return a plain text, and those that return a
\* pair of a text and a suggestion.
C13_ReturnText == {"VillaFjoldiHluti", "SvigaInnihaldNl"}

C13_ReturnPair ==
    {"VillaHeldur", "VillaVistAd", "VillaSem", "VillaAd", "VillaKomma",
     "VillaNe", "VillaThoAd"}

C13_RedundantToken == {"VillaHeldur", "VillaSem", "VillaAd", "VillaKomma"}

\* The name under which the text function of a rule is looked up.
C13_Function(name) == C12_BeforeUnderscore(name)

\* C13: the annotation of an error-tagged nonterminal whose rule has no
\* text function, or one returning a plain text, spans the whole node and
\* has no suggestion; with a text function returning a pair it spans the
\* whole node and has the suggestion of the pair, an empty one staying
\* empty; VillaHeldur, VillaSem, VillaAd and VillaKomma give an empty
\* suggestion.
C13_ShapeGivesSuggestionAndSpan ==
    [][\A t \in Threads :
         (Passed(t) /\ sent[t].deep_tree[Head(todo[t])].kind = "nt"
                    /\ NewAnnotations(t) # <<>>)
         => LET n == Head(todo[t])
                node == sent[t].deep_tree[n]
                f == C13_Function(node.name)
                a == NewAnnotations(t)[1]
                whole == /\ a.start = node_span(sent[t].deep_tree, n)[1]
                         /\ a.end = node_span(sent[t].deep_tree, n)[2]
            IN /\ (f \notin TextFunctions \/ f \in C13_ReturnText)
                     => whole /\ a.suggest = None
               /\ f \in C13_ReturnPair
                     => /\ whole
                        /\ a.suggest # None
                        /\ a.suggest = CallTextFunction(sent[t], f,
                                           node_text(sent[t], n),
                                           VariantsOf(node.name), n).suggest
               /\ f \in C13_RedundantToken => a.suggest = Some(<<>>)]_vars

\* A call has returned an annotation with no suggestion for a rule without
\* a text function, together with one with an empty suggestion for a
\* redundant word.
C13_Witness ==
    \E t \in Threads : \E r \in Returned(t) :
        /\ sent[t].deep_tree # <<>>
        /\ \E i \in DOMAIN r : r[i].code = "P_NT_Othekkt" /\ r[i].suggest = None
        /\ \E i \in DOMAIN r : r[i].code = "P_NT_Ad/w" /\ r[i].suggest = Some(<<>>)

\* Thread t has just called the hook of the node at the head of its list.
Called(t) ==
    pc[t] = "visit" /\ (todo'[t] = Tail(todo[t]) \/ pc'[t] = "raised")

\* The nodes of a tree on which VillaITolu is called.
C14_NumberRuleNodes(s) ==
    {n \in Nodes(s.deep_tree) :
        /\ s.deep_tree[n].kind = "nt"
        /\ s.deep_tree[n].error
        /\ ~s.deep_tree[n].is_interior
        /\ ~s.deep_tree[n].is_optional
        /\ C13_Function(s.deep_tree[n].name) = "VillaITolu"}

\* C14: the annotation of a VillaITolu node with two children spans the
\* tokens of the second child and has no suggestion; on a VillaITolu node
\* with another number of children the call ends in an AssertionError and
\* nothing is appended.
C14_NumberRuleSpansSecondChild ==
    [][\A t \in Threads :
         (Called(t) /\ sent[t].deep_tree # <<>>
                    /\ Head(todo[t]) \in C14_NumberRuleNodes(sent[t]))
         => LET tree == sent[t].deep_tree
                n == Head(todo[t])
                kids == {m \in Nodes(tree) : tree[m].parent = n}
                second == CHOOSE m \in kids :
                              Cardinality({k \in kids : k < m}) = 1
                new == NewAnnotations(t)
            IN IF Cardinality(kids) = 2
               THEN /\ pc'[t] # "raised"
                    /\ Len(new) = 1
                    /\ new[1].start = Min(TokensUnder(tree, second))
                    /\ new[1].end = Max(TokensUnder(tree, second))
                    /\ new[1].suggest = None
               ELSE /\ pc'[t] = "raised"
                    /\ exc'[t] = "AssertionError"
                    /\ new = <<>>]_vars

\* A call has returned the annotation of a VillaITolu node with two
\* children, over fewer tokens than the node spans.
C14_Witness ==
    \E t \in Threads : \E r \in Returned(t) :
        /\ sent[t].deep_tree # <<>>
        /\ \E n \in C14_NumberRuleNodes(sent[t]) : \E i \in DOMAIN r :
              /\ Len(Children(sent[t].deep_tree, n)) = 2
              /\ r[i].code = "P_NT_ITolu"
              /\ r[i].start > node_span(sent[t].deep_tree, n)[1]
              /\ r[i].end = node_span(sent[t].deep_tree, n)[2]

\* Whether the list holds the annotation of the error of each token.
C15_KeepsTokenLevel(s, r) ==
    \A i \in 0..(Len(s.tokens) - 1) :
        s.tokens[i + 1].error_code # ""
        => \E k \in DOMAIN r :
              /\ r[k].code = s.tokens[i + 1].error_code
              /\ r[k].start = i
              /\ r[k].end = i + s.tokens[i + 1].error_span - 1

\* C15: counting the tokens of kind WORD only, a sentence with at most 2
\* words, or with at least 0.6 of its words known to the lexicon, gets no
\* E004 annotation and keeps the annotations of its tokens' errors; a list
\* with an E004 annotation is that of a sentence with more than 2 words,
\* fewer than 0.6 of them known.
C15_GateOnlyOverTwoAndBelowRatio ==
    \A t \in Threads : \A r \in Returned(t) :
        LET words == Cardinality({i \in DOMAIN sent[t].tokens :
                                     sent[t].tokens[i].kind = WORD})
            known == Cardinality({i \in DOMAIN sent[t].tokens :
                                     /\ sent[t].tokens[i].kind = WORD
                                     /\ sent[t].tokens[i].val})
            flagged == \E k \in DOMAIN r : r[k].code = "E004"
        IN /\ (words <= 2 \/ 10 * known >= 6 * words)
                 => ~flagged /\ C15_KeepsTokenLevel(sent[t], r)
           /\ flagged => words > 2 /\ 10 * known < 6 * words

\* A call has returned the list of a sentence of 5 words, 3 of them known:
\* no E004 annotation and the annotation of the first token's error.
C15_Witness ==
    \E t \in Threads : \E r \in Returned(t) :
        /\ Cardinality(WordTokens(sent[t])) = 5
        /\ Cardinality(KnownWords(sent[t])) = 3
        /\ \A k \in DOMAIN r : r[k].code # "E004"
        /\ \E k \in DOMAIN r : r[k].code = "S004" /\ r[k].start = 0

\* The singletons are replaced inside the lock, and together: a step that
\* changes either is taken by the holder of the lock, and with the lock free
\* the reducer is the one built from the grammar of the current parser.
C16_ReplacedTogetherInLock ==
    /\ _lock = "" => _reducer = _parser
    /\ _reducer # _parser => at[_lock] = "reducer"

\* A thread that has read parser and then reducer holds the reducer built
\* from the grammar of the parser it was given.
C16_ReducerOfGivenParser ==
    \A t \in Threads :
        at[t] = "has_both" => given[t].reducer = given[t].parser

\* No read of reducer after a read of parser has failed its assertion.
C16_ReducerNeverNone == \A t \in Threads : at[t] # "AssertionError"

\* C16: under every interleaving of threads reading parser and reducer,
\* with the grammar reported modified at any time: the singletons are
\* replaced together inside the lock; a thread that reads parser and then
\* reducer gets the reducer built from the grammar of the parser it was
\* given, never that of a newer parser; and the read of reducer never fails
\* its assertion.
C16_ParserAndReducerPaired ==
    /\ C16_ReplacedTogetherInLock
    /\ C16_ReducerOfGivenParser
    /\ C16_ReducerNeverNone

====
